---- MODULE Spec2Model ----
(***************************************************************************)
(* Model of the subtitle authoring tool: the timestamp utilities and the   *)
(* SRT codec (utils/timeUtils), the model-response interpreter             *)
(* (services/geminiService) and the App component's segment / status       *)
(* state machine (App.tsx).                                                *)
(*                                                                         *)
(* Representation.                                                         *)
(*  - A JavaScript string is a sequence of one-character strings.          *)
(*  - A JavaScript number that holds a time is a record [nan, v]: v counts *)
(*    ticks of 1/10 ms (TicksPerSecond ticks make one second), so that     *)
(*    sub-millisecond inputs exist and 24 h still fits TLC's integers.     *)
(*    Arithmetic is exact: IEEE-754 rounding is not modelled.              *)
(***************************************************************************)
EXTENDS Integers, Sequences, FiniteSets, TLC

VARIABLES
    videoFile,      \* App: the loaded media file (0 = null, else the number of the File)
    subtitles,      \* App: the segment list
    status,         \* App: processingState.status
    message,        \* App: processingState.message ("" = none)
    duration,       \* App: the media duration the player reported (0 = not yet)
    isAuthorized,   \* App: isAuthorized
    gens,           \* the handleGenerateSubtitles calls suspended at an await
    reads,          \* the FileReader reads handleLoadSrt started, not yet loaded
    nextId,         \* the number of identifiers crypto.randomUUID handed out
    started,        \* the number of generations started
    loaded,         \* the number of SRT reads started
    env,            \* the environment: whether process.env.API_KEY is set
    last,           \* the handler that ran last
    op,             \* utilities: the function applied last ("idle" before)
    input,          \* utilities: the argument drawn by Init
    output          \* utilities: the value returned

appVars == <<videoFile, subtitles, status, message, duration, isAuthorized,
             gens, reads, nextId, started, loaded, env, last>>
fnVars == <<op, input, output>>
vars == <<videoFile, subtitles, status, message, duration, isAuthorized,
          gens, reads, nextId, started, loaded, env, last, op, input, output>>

----------------------------------------------------------------------------
(* JavaScript strings                                                       *)

WhiteSpace == {" ", "\n", "\r", "\t"}
Digits == {"0", "1", "2", "3", "4", "5", "6", "7", "8", "9"}

DigitVal(c) ==
    CASE c = "0" -> 0 [] c = "1" -> 1 [] c = "2" -> 2 [] c = "3" -> 3
      [] c = "4" -> 4 [] c = "5" -> 5 [] c = "6" -> 6 [] c = "7" -> 7
      [] c = "8" -> 8 [] c = "9" -> 9

DigitChar(d) ==
    CASE d = 0 -> "0" [] d = 1 -> "1" [] d = 2 -> "2" [] d = 3 -> "3"
      [] d = 4 -> "4" [] d = 5 -> "5" [] d = 6 -> "6" [] d = 7 -> "7"
      [] d = 8 -> "8" [] d = 9 -> "9"

\* s.substring(from - 1): the suffix of s that starts at position from (1-based)
Drop(s, from) == SubSeq(s, from, Len(s))

\* whether pat occurs in s at position i (1-based)
MatchAt(s, pat, i) ==
    /\ i >= 1
    /\ i + Len(pat) - 1 <= Len(s)
    /\ \A k \in 1..Len(pat) : s[i + k - 1] = pat[k]

\* s.indexOf(pat, from - 1) + 1: first occurrence at or after from, 0 if none
IndexOfFrom(s, pat, from) ==
    LET hits == {i \in from..(Len(s) - Len(pat) + 1) : MatchAt(s, pat, i)}
    IN  IF hits = {} THEN 0 ELSE CHOOSE i \in hits : \A j \in hits : i <= j

\* s.indexOf(pat) + 1
IndexOf(s, pat) == IndexOfFrom(s, pat, 1)

\* s.lastIndexOf(pat) + 1
LastIndexOf(s, pat) ==
    LET hits == {i \in 1..(Len(s) - Len(pat) + 1) : MatchAt(s, pat, i)}
    IN  IF hits = {} THEN 0 ELSE CHOOSE i \in hits : \A j \in hits : i >= j

\* s.includes(pat)
Includes(s, pat) == IndexOf(s, pat) # 0

\* s.trim()
Trim(s) ==
    LET keep == {i \in 1..Len(s) : s[i] \notin WhiteSpace}
    IN  IF keep = {} THEN <<>>
        ELSE SubSeq(s, CHOOSE i \in keep : \A j \in keep : i <= j,
                       CHOOSE i \in keep : \A j \in keep : i >= j)

\* s.split(sep) for a non-empty separator: always at least one part
RECURSIVE Split(_, _)
Split(s, sep) ==
    LET i == IndexOf(s, sep)
    IN  IF i = 0 THEN <<s>>
        ELSE <<SubSeq(s, 1, i - 1)>> \o Split(Drop(s, i + Len(sep)), sep)

\* parts.join(sep)
RECURSIVE Join(_, _)
Join(parts, sep) ==
    IF Len(parts) = 0 THEN <<>>
    ELSE IF Len(parts) = 1 THEN parts[1]
    ELSE parts[1] \o sep \o Join(Tail(parts), sep)

\* s.replace(pat, by) with a string pattern: the first occurrence only
ReplaceFirst(s, pat, by) ==
    LET i == IndexOf(s, pat)
    IN  IF i = 0 THEN s
        ELSE SubSeq(s, 1, i - 1) \o by \o Drop(s, i + Len(pat))

\* s.replace(/pat/g, by): every occurrence, left to right
RECURSIVE ReplaceAll(_, _, _)
ReplaceAll(s, pat, by) ==
    LET i == IndexOf(s, pat)
    IN  IF i = 0 THEN s
        ELSE SubSeq(s, 1, i - 1) \o by \o ReplaceAll(Drop(s, i + Len(pat)), pat, by)

\* n.toString() for an integer n >= 0
RECURSIVE NatToString(_)
NatToString(n) ==
    IF n < 10 THEN <<DigitChar(n)>>
    ELSE NatToString(n \div 10) \o <<DigitChar(n % 10)>>

\* s.padStart(width, '0')
RECURSIVE PadStart(_, _)
PadStart(s, width) ==
    IF Len(s) >= width THEN s ELSE PadStart(<<"0">> \o s, width)

----------------------------------------------------------------------------
(* JavaScript numbers                                                       *)

\* resolution of the number model: ticks in one millisecond
TicksPerMs == 10
TicksPerSecond == TicksPerMs * 1000

NaN == [nan |-> TRUE, v |-> 0]
Num(ticks) == [nan |-> FALSE, v |-> ticks]
Seconds(n) == Num(n * TicksPerSecond)

\* a + b
Add(a, b) == IF a.nan \/ b.nan THEN NaN ELSE Num(a.v + b.v)
\* a * k for an integer literal k
Times(a, k) == IF a.nan THEN NaN ELSE Num(a.v * k)

\* the length of the longest run of digits at the head of s
RECURSIVE DigitRun(_)
DigitRun(s) ==
    IF Len(s) > 0 /\ s[1] \in Digits THEN 1 + DigitRun(Tail(s)) ELSE 0

\* the value of a string of digits
RECURSIVE DigitsValue(_)
DigitsValue(s) ==
    IF Len(s) = 0 THEN 0
    ELSE DigitsValue(SubSeq(s, 1, Len(s) - 1)) * 10 + DigitVal(s[Len(s)])

\* the leading white space of s removed (the StrWhiteSpace prefix of parseInt / parseFloat)
RECURSIVE SkipSpace(_)
SkipSpace(s) ==
    IF Len(s) > 0 /\ s[1] \in WhiteSpace THEN SkipSpace(Tail(s)) ELSE s

\* parseInt(s, 10): optional sign, then the longest run of digits; NaN without a digit
parseInt(s) ==
    LET t == SkipSpace(s)
        neg == Len(t) > 0 /\ t[1] = "-"
        u == IF Len(t) > 0 /\ t[1] \in {"-", "+"} THEN Tail(t) ELSE t
        n == DigitRun(u)
    IN  IF n = 0 THEN NaN
        ELSE Seconds((IF neg THEN -1 ELSE 1) * DigitsValue(SubSeq(u, 1, n)))

\* the first four fraction digits as ticks (later digits are below one tick)
FractionTicks(f) ==
    LET g == SubSeq(f \o <<"0", "0", "0", "0">>, 1, 4)
    IN  DigitsValue(g)

\* parseFloat(s): optional sign, digits, optional '.' and digits; trailing text is
\* ignored; NaN when no digit is found. Exponents and "Infinity" are outside the
\* alphabet of the inputs.
parseFloat(s) ==
    LET t == SkipSpace(s)
        neg == Len(t) > 0 /\ t[1] = "-"
        u == IF Len(t) > 0 /\ t[1] \in {"-", "+"} THEN Tail(t) ELSE t
        n == DigitRun(u)
        rest == Drop(u, n + 1)
        dot == Len(rest) > 0 /\ rest[1] = "."
        m == IF dot THEN DigitRun(Tail(rest)) ELSE 0
        frac == IF dot THEN SubSeq(rest, 2, m + 1) ELSE <<>>
    IN  IF n = 0 /\ m = 0 THEN NaN
        ELSE Num((IF neg THEN -1 ELSE 1)
                 * (DigitsValue(SubSeq(u, 1, n)) * TicksPerSecond + FractionTicks(frac)))

----------------------------------------------------------------------------
(* utils/timeUtils: timestamps                                              *)

Colon == <<":">>
Comma == <<",">>
Period == <<".">>
NaNText == <<"N", "a", "N">>

\* Date.prototype.setMilliseconds on new Date(0): the time value is the argument
\* truncated toward zero (ToIntegerOrInfinity); NaN gives an invalid date
DateMs(seconds) ==
    IF seconds.v >= 0 THEN seconds.v \div TicksPerMs
    ELSE -((-seconds.v) \div TicksPerMs)

\* date.getUTCxxx().toString().padStart(width, '0') of a field of the date
Field(value, width) == PadStart(NatToString(value), width)

\* formatSrtTime(seconds): "HH:MM:SS,mmm"
formatSrtTime(seconds) ==
    IF seconds.nan
    THEN NaNText \o Colon \o NaNText \o Colon \o NaNText \o Comma \o NaNText
    ELSE LET t == DateMs(seconds)
             hh == Field((t \div 3600000) % 24, 2)
             mm == Field((t \div 60000) % 60, 2)
             ss == Field((t \div 1000) % 60, 2)
             mmm == Field(t % 1000, 3)
         IN  hh \o Colon \o mm \o Colon \o ss \o Comma \o mmm

\* formatTime(seconds): "MM:SS.mmm"
formatTime(seconds) ==
    IF seconds.nan
    THEN NaNText \o Colon \o NaNText \o Period \o NaNText
    ELSE LET t == DateMs(seconds)
             mm == Field((t \div 60000) % 60, 2)
             ss == Field((t \div 1000) % 60, 2)
             mmm == Field(t % 1000, 3)
         IN  mm \o Colon \o ss \o Period \o mmm

\* the value undefined, where a string is expected (a missing field, a missing
\* element of a destructured array)
Undefined == <<"undefined value">>

\* !timeString: undefined and the empty string are falsy
Falsy(s) == s = Undefined \/ s = <<>>

\* the mutants of parseTimeString used by the checks below
parseTimeStringNoComma(timeString) ==
    IF Falsy(timeString) THEN Seconds(0)
    ELSE LET parts == Split(timeString, Colon)
         IN  IF Len(parts) = 3
             THEN Add(Add(Times(parseInt(parts[1]), 3600), Times(parseInt(parts[2]), 60)),
                      parseFloat(parts[3]))
             ELSE IF Len(parts) = 2
             THEN Add(Times(parseInt(parts[1]), 60), parseFloat(parts[2]))
             ELSE Seconds(0)

\* parseTimeString(timeString): "MM:SS.mmm" or "HH:MM:SS,mmm" to seconds
parseTimeString(timeString) ==
    IF Falsy(timeString) THEN Seconds(0)
    ELSE LET normalized == ReplaceFirst(timeString, Comma, Period)
             parts == Split(normalized, Colon)
         IN  IF Len(parts) = 3
             THEN Add(Add(Times(parseInt(parts[1]), 3600), Times(parseInt(parts[2]), 60)),
                      parseFloat(parts[3]))
             ELSE IF Len(parts) = 2
             THEN Add(Times(parseInt(parts[1]), 60), parseFloat(parts[2]))
             ELSE Seconds(0)

----------------------------------------------------------------------------
(* utils/timeUtils: the SRT codec                                           *)

LF == <<"\n">>
CR == <<"\r">>
Arrow == <<" ", "-", "-", ">", " ">>

Segment(id, startTime, endTime, text) ==
    [id |-> id, startTime |-> startTime, endTime |-> endTime, text |-> text]

\* the template literal of generateSrt for the segment at position index + 1
SrtBlock(seg, index) ==
    NatToString(index + 1) \o LF
    \o formatSrtTime(seg.startTime) \o Arrow \o formatSrtTime(seg.endTime) \o LF
    \o Trim(seg.text) \o LF

\* generateSrt(segments)
generateSrt(segments) ==
    Join([i \in 1..Len(segments) |-> SrtBlock(segments[i], i - 1)], LF)

\* parts[i], or undefined past the end (array destructuring)
ElementOrUndefined(parts, i) == IF i <= Len(parts) THEN parts[i] ELSE Undefined

\* the mutant of BlockSegments used by the checks below: the text starts at the
\* timecode line
BlockSegmentsFromSecondLine(block, id) ==
    LET lines == Split(Trim(block), LF)
    IN  IF Len(lines) >= 3
        THEN LET timecode == lines[2]
                 tc == Split(timecode, Arrow)
                 startStr == ElementOrUndefined(tc, 1)
                 endStr == ElementOrUndefined(tc, 2)
                 text == Join(SubSeq(lines, 2, Len(lines)), <<" ">>)
             IN  IF ~Falsy(startStr) /\ ~Falsy(endStr)
                 THEN <<Segment(id, parseTimeString(startStr), parseTimeString(endStr), text)>>
                 ELSE <<>>
        ELSE <<>>

\* the body of the forEach callback of parseSrt: the segments pushed for one
\* block (none or one), the identifier being the next one handed out
BlockSegments(block, id) ==
    LET lines == Split(Trim(block), LF)
    IN  IF Len(lines) >= 3
        THEN LET timecode == lines[2]
                 tc == Split(timecode, Arrow)
                 startStr == ElementOrUndefined(tc, 1)
                 endStr == ElementOrUndefined(tc, 2)
                 text == Join(SubSeq(lines, 3, Len(lines)), <<" ">>)
             IN  IF ~Falsy(startStr) /\ ~Falsy(endStr)
                 THEN <<Segment(id, parseTimeString(startStr), parseTimeString(endStr), text)>>
                 ELSE <<>>
        ELSE <<>>

\* blocks.forEach(...): the segments of the blocks in order after those pushed
\* before; the identifiers number the calls of crypto.randomUUID
RECURSIVE BlocksSegments(_, _)
BlocksSegments(blocks, pushed) ==
    IF Len(blocks) = 0 THEN <<>>
    ELSE LET first == BlockSegments(blocks[1], pushed + 1)
         IN  first \o BlocksSegments(Tail(blocks), pushed + Len(first))

\* parseSrt(srtContent); the identifiers are 1, 2, ... in the order of the
\* calls of crypto.randomUUID
parseSrt(srtContent) ==
    LET normalized == ReplaceAll(ReplaceAll(srtContent, CR \o LF, LF), CR, LF)
        blocks == Split(normalized, LF \o LF)
    IN  BlocksSegments(blocks, 0)

----------------------------------------------------------------------------
(* services/geminiService: recovery of the payload                          *)

\* the grave accent (backtick), which a TLA+ string literal cannot hold
BackTick == "backtick"
Fence == <<BackTick, BackTick, BackTick>>
JsonTag == <<"j", "s", "o", "n">>
OpenBracket == <<"[">>
CloseBracket == <<"]">>
CloseBrace == <<"}">>
EmptyArrayText == <<"[", "]">>

\* the first position at or after i that holds no white space (Len(s) + 1 if none)
RECURSIVE SkipSpaceFrom(_, _)
SkipSpaceFrom(s, i) ==
    IF i <= Len(s) /\ s[i] \in WhiteSpace THEN SkipSpaceFrom(s, i + 1) ELSE i

\* the last position at or before j that holds no white space, not below i - 1
RECURSIVE SkipSpaceBack(_, _, _)
SkipSpaceBack(s, i, j) ==
    IF j >= i /\ s[j] \in WhiteSpace THEN SkipSpaceBack(s, i, j - 1) ELSE j

\* clean.match(/FENCE(?:json)?\s*([\s\S]*?)\s*FENCE/): [found, group]. The match
\* starts at the first fence; the tag and the white space after it are taken
\* greedily, the group lazily up to the next fence, less the white space before it.
FenceMatch(clean) ==
    LET open == IndexOf(clean, Fence)
        afterFence == open + Len(Fence)
        afterTag == IF MatchAt(clean, JsonTag, afterFence)
                    THEN afterFence + Len(JsonTag) ELSE afterFence
        from == SkipSpaceFrom(clean, afterTag)
        close == IndexOfFrom(clean, Fence, from)
    IN  IF open = 0 \/ close = 0 THEN [found |-> FALSE, group |-> <<>>]
        ELSE [found |-> TRUE,
              group |-> SubSeq(clean, from, SkipSpaceBack(clean, from, close - 1))]

\* lines 47-51: trim, then the content of the first fenced block when there is one
StripFence(text) ==
    LET clean == Trim(text)
    IN  IF Includes(clean, Fence)
        THEN LET match == FenceMatch(clean)
             IN  IF match.found /\ match.group # <<>> THEN Trim(match.group) ELSE clean
        ELSE clean

\* the mutants of sanitizeAndRepairJson used by the checks below
sanitizeExclusiveSlice(text) ==
    LET clean == StripFence(text)
        firstBracket == IndexOf(clean, OpenBracket)
        lastBracket == LastIndexOf(clean, CloseBracket)
        lastValidClosingBrace == LastIndexOf(clean, CloseBrace)
    IN  IF firstBracket = 0 THEN EmptyArrayText
        ELSE IF lastBracket = 0 \/ lastBracket < firstBracket
        THEN IF lastValidClosingBrace # 0 /\ lastValidClosingBrace > firstBracket
             THEN SubSeq(clean, firstBracket, lastValidClosingBrace) \o CloseBracket
             ELSE EmptyArrayText
        ELSE SubSeq(clean, firstBracket, lastBracket - 1)

sanitizeNoRepair(text) ==
    LET clean == StripFence(text)
        firstBracket == IndexOf(clean, OpenBracket)
        lastBracket == LastIndexOf(clean, CloseBracket)
    IN  IF firstBracket = 0 THEN EmptyArrayText
        ELSE IF lastBracket = 0 \/ lastBracket < firstBracket
        THEN EmptyArrayText
        ELSE SubSeq(clean, firstBracket, lastBracket)

sanitizeNoAppend(text) ==
    LET clean == StripFence(text)
        firstBracket == IndexOf(clean, OpenBracket)
        lastBracket == LastIndexOf(clean, CloseBracket)
        lastValidClosingBrace == LastIndexOf(clean, CloseBrace)
    IN  IF firstBracket = 0 THEN EmptyArrayText
        ELSE IF lastBracket = 0 \/ lastBracket < firstBracket
        THEN IF lastValidClosingBrace # 0 /\ lastValidClosingBrace > firstBracket
             THEN SubSeq(clean, firstBracket, lastValidClosingBrace)
             ELSE EmptyArrayText
        ELSE SubSeq(clean, firstBracket, lastBracket)

\* sanitizeAndRepairJson(text)
sanitizeAndRepairJson(text) ==
    LET clean == StripFence(text)
        firstBracket == IndexOf(clean, OpenBracket)
        lastBracket == LastIndexOf(clean, CloseBracket)
        lastValidClosingBrace == LastIndexOf(clean, CloseBrace)
    IN  IF firstBracket = 0 THEN EmptyArrayText
        ELSE IF lastBracket = 0 \/ lastBracket < firstBracket
        THEN IF lastValidClosingBrace # 0 /\ lastValidClosingBrace > firstBracket
             THEN SubSeq(clean, firstBracket, lastValidClosingBrace) \o CloseBracket
             ELSE EmptyArrayText
        ELSE SubSeq(clean, firstBracket, lastBracket)

----------------------------------------------------------------------------
(* JSON.parse, for texts made of arrays, objects and strings. A value is     *)
(* [t |-> "arr", items], [t |-> "obj", members] or [t |-> "str", s]; numbers *)
(* and the literals true, false and null do not occur in the inputs and are  *)
(* rejected like any other unexpected character.                             *)

Quote == <<"\"">>
ParseFail == [ok |-> FALSE, val |-> <<>>, next |-> 0]
ParseOk(val, next) == [ok |-> TRUE, val |-> val, next |-> next]

\* the character an escape sequence \c stands for
Unescape(c) ==
    CASE c = "n" -> "\n" [] c = "t" -> "\t" [] c = "r" -> "\r" [] OTHER -> c

\* the characters of a string literal from position j on, up to its closing quote
RECURSIVE ScanString(_, _, _)
ScanString(s, j, acc) ==
    IF j > Len(s) THEN ParseFail
    ELSE IF s[j] = "\"" THEN ParseOk([t |-> "str", s |-> acc], j + 1)
    ELSE IF s[j] = "\\"
    THEN IF j + 1 <= Len(s) /\ s[j + 1] \in {"n", "t", "r", "\"", "\\", "/"}
         THEN ScanString(s, j + 2, Append(acc, Unescape(s[j + 1])))
         ELSE ParseFail
    ELSE IF s[j] \in {"\n", "\r", "\t"} THEN ParseFail
    ELSE ScanString(s, j + 1, Append(acc, s[j]))

RECURSIVE ParseValue(_, _)
RECURSIVE ParseElements(_, _, _)
RECURSIVE ParseMembers(_, _, _)

\* the value that starts at or after position i
ParseValue(s, i) ==
    LET j == SkipSpaceFrom(s, i)
    IN  IF j > Len(s) THEN ParseFail
        ELSE IF s[j] = "\"" THEN ScanString(s, j + 1, <<>>)
        ELSE IF s[j] = "["
        THEN LET k == SkipSpaceFrom(s, j + 1)
             IN  IF k <= Len(s) /\ s[k] = "]"
                 THEN ParseOk([t |-> "arr", items |-> <<>>], k + 1)
                 ELSE ParseElements(s, j + 1, <<>>)
        ELSE IF s[j] = "{"
        THEN LET k == SkipSpaceFrom(s, j + 1)
             IN  IF k <= Len(s) /\ s[k] = "}"
                 THEN ParseOk([t |-> "obj", members |-> <<>>], k + 1)
                 ELSE ParseMembers(s, j + 1, <<>>)
        ELSE ParseFail

\* the elements of an array from position i on, after those in acc
ParseElements(s, i, acc) ==
    LET v == ParseValue(s, i)
        k == SkipSpaceFrom(s, v.next)
    IN  IF ~v.ok \/ k > Len(s) THEN ParseFail
        ELSE IF s[k] = "," THEN ParseElements(s, k + 1, Append(acc, v.val))
        ELSE IF s[k] = "]" THEN ParseOk([t |-> "arr", items |-> Append(acc, v.val)], k + 1)
        ELSE ParseFail

\* the members of an object from position i on, after those in acc
ParseMembers(s, i, acc) ==
    LET j == SkipSpaceFrom(s, i)
        key == IF j <= Len(s) /\ s[j] = "\"" THEN ScanString(s, j + 1, <<>>) ELSE ParseFail
        c == SkipSpaceFrom(s, key.next)
        v == IF key.ok /\ c <= Len(s) /\ s[c] = ":" THEN ParseValue(s, c + 1) ELSE ParseFail
        k == SkipSpaceFrom(s, v.next)
        member == [k |-> key.val.s, v |-> v.val]
    IN  IF ~v.ok \/ k > Len(s) THEN ParseFail
        ELSE IF s[k] = "," THEN ParseMembers(s, k + 1, Append(acc, member))
        ELSE IF s[k] = "}" THEN ParseOk([t |-> "obj", members |-> Append(acc, member)], k + 1)
        ELSE ParseFail

\* JSON.parse(text): ok is FALSE where JSON.parse throws a SyntaxError
JSONparse(text) ==
    LET v == ParseValue(text, 1)
    IN  IF v.ok /\ SkipSpaceFrom(text, v.next) > Len(text) THEN v ELSE ParseFail

----------------------------------------------------------------------------
(* services/geminiService: generateSubtitles                                *)

KeyStart == <<"s", "t", "a", "r", "t">>
KeyEnd == <<"e", "n", "d">>
KeyText == <<"t", "e", "x", "t">>

MsgNoKey == "API Key is missing."
MsgEmpty == "The AI model returned an empty response."
MsgNoSpeech == "No speech detected."
MsgParse == "Failed to parse AI response. The file might be too complex or contain noise."

\* item[key]: the value of the last member named key, or undefined
Property(item, key) ==
    LET hits == IF item.t = "obj"
                THEN {i \in 1..Len(item.members) : item.members[i].k = key} ELSE {}
    IN  IF hits = {} THEN [t |-> "undefined"]
        ELSE item.members[CHOOSE i \in hits : \A j \in hits : i >= j].v

\* the value as the string parseTimeString and the segment receive
AsString(value) ==
    IF value.t = "str" THEN value.s ELSE Undefined

\* whether parseTimeString(value) throws: a truthy value that is no string has
\* no replace method
TimeThrows(value) == value.t \in {"arr", "obj"}

\* whether the callback of parsedItems.map throws for this item: on a bad
\* start or end, or on crypto.randomUUID where it does not exist
ItemThrows(item, secure) ==
    \/ ~secure
    \/ TimeThrows(Property(item, KeyStart))
    \/ TimeThrows(Property(item, KeyEnd))

\* the segment the callback of parsedItems.map returns
ItemSegment(item, id) ==
    Segment(id,
            parseTimeString(AsString(Property(item, KeyStart))),
            parseTimeString(AsString(Property(item, KeyEnd))),
            AsString(Property(item, KeyText)))

Failure(msg) == [ok |-> FALSE, segments |-> <<>>, error |-> msg]
Success(segments) == [ok |-> TRUE, segments |-> segments, error |-> ""]

\* lines 118-126, the body of the inner try: the segments, or the error thrown
TryInterpret(jsonText, secure) ==
    LET parsed == JSONparse(jsonText)
        parsedItems == parsed.val.items
    IN  IF ~parsed.ok THEN Failure("SyntaxError")
        ELSE IF parsed.val.t # "arr" THEN Failure("TypeError")
        ELSE IF Len(parsedItems) = 0 THEN Failure(MsgNoSpeech)
        ELSE IF \E i \in 1..Len(parsedItems) : ItemThrows(parsedItems[i], secure)
        THEN Failure("TypeError")
        ELSE Success([i \in 1..Len(parsedItems) |-> ItemSegment(parsedItems[i], i)])

\* lines 117-129: the inner try with its catch, which replaces whatever was
\* thrown in the try by the parse-failure error
InterpretPayload(jsonText, secure) ==
    LET tried == TryInterpret(jsonText, secure)
    IN  IF tried.ok THEN tried ELSE Failure(MsgParse)

\* generateSubtitles: apiKey is whether process.env.API_KEY is set, response is
\* what ai.models.generateContent settled with ([rejected, error] or [text]),
\* secure is whether crypto.randomUUID can be called; the identifiers are
\* 1, 2, ... in the order of the calls of crypto.randomUUID
generateSubtitles(apiKey, response, secure) ==
    IF ~apiKey THEN Failure(MsgNoKey)
    ELSE IF response.rejected THEN Failure(response.error)
    ELSE IF response.text = <<>> THEN Failure(MsgEmpty)
    ELSE InterpretPayload(sanitizeAndRepairJson(response.text), secure)

----------------------------------------------------------------------------
(* Inputs of the timestamp utilities                                        *)

MaxHours == 25

HourValues == {0, 1} \cup ((MaxHours - 2)..MaxHours)
MinuteValues == {0, 2, 59}
SecondValues == {0, 5, 59}
MsValues == {0, 250, 500, 999}
SubMsValues == {0, 5}

\* seconds values, in ticks
TimeValues ==
    {(((h * 60 + m) * 60 + s) * 1000 + ms) * TicksPerMs + sub :
        h \in HourValues, m \in MinuteValues, s \in SecondValues,
        ms \in MsValues, sub \in SubMsValues}

\* well-formed timestamps by their components: n = 3 is HH:MM:SS<sep>mmm,
\* n = 2 is MM:SS<sep>mmm
Stamps ==
    [n : {2, 3}, h : HourValues, m : MinuteValues, s : SecondValues,
     ms : MsValues, sep : {".", ","}]

StampText(c) ==
    (IF c.n = 3 THEN Field(c.h, 2) \o Colon ELSE <<>>)
    \o Field(c.m, 2) \o Colon \o Field(c.s, 2) \o <<c.sep>> \o Field(c.ms, 3)

\* the seconds a well-formed timestamp denotes, in ticks
StampValue(c) ==
    (((IF c.n = 3 THEN c.h ELSE 0) * 60 + c.m) * 60 + c.s) * TicksPerSecond
    + c.ms * TicksPerMs

\* strings that are no timestamp
MalformedTimes ==
    { <<>>,
      <<"5">>,
      <<"a", "b", "c">>,
      <<"1", "2", ".", "5">>,
      <<"1", ":", "2", ":", "3", ":", "4">>,
      <<"a", "b", ":", "c", "d">>,
      <<"0", "1", ":", "x", "x">>,
      <<":", ":">>,
      <<"x", ":", "0", "0", ":", "0", "1", ",", "0", "0", "0">> }

\* the examples of the specification: "01:02.500" and "00:05,250"
Example1 == <<"0", "1", ":", "0", "2", ".", "5", "0", "0">>
Example2 == <<"0", "0", ":", "0", "5", ",", "2", "5", "0">>

TimeInputs ==
    [kind : {"num"}, x : TimeValues]
    \cup [kind : {"stamp"}, c : Stamps]
    \cup [kind : {"raw"}, s : MalformedTimes \cup {Example1, Example2}]

InputText(i) == IF i.kind = "stamp" THEN StampText(i.c) ELSE i.s

----------------------------------------------------------------------------
(* The App component's state after construction (useState initial values)   *)

NoValue == <<>>

AppInit ==
    /\ videoFile = 0
    /\ subtitles = <<>>
    /\ status = "IDLE"
    /\ message = ""
    /\ duration = 0
    /\ isAuthorized = TRUE
    /\ gens = {}
    /\ reads = {}
    /\ nextId = 0
    /\ started = 0
    /\ loaded = 0
    /\ last = [h |-> "none"]

\* the utilities' specifications leave the App alone
AppIdle == AppInit /\ env = [apiKey |-> TRUE]

----------------------------------------------------------------------------
(* Specification of the timestamp utilities: Init draws the argument, the   *)
(* actions apply the functions.                                             *)

InitTime ==
    /\ AppIdle
    /\ op = "idle"
    /\ input \in TimeInputs
    /\ output = NoValue

\* formatSrtTime(x)
FormatSrtTimeStep ==
    /\ op = "idle"
    /\ input.kind = "num"
    /\ output' = formatSrtTime(Num(input.x))
    /\ op' = "formatSrtTime"
    /\ UNCHANGED <<input, appVars>>

\* parseTimeString(formatSrtTime(x))
ParseFormattedStep ==
    /\ op = "formatSrtTime"
    /\ output' = parseTimeString(output)
    /\ op' = "roundTrip"
    /\ UNCHANGED <<input, appVars>>

\* parseTimeString(s)
ParseTimeStringStep ==
    /\ op = "idle"
    /\ input.kind \in {"stamp", "raw"}
    /\ output' = parseTimeString(InputText(input))
    /\ op' = "parseTimeString"
    /\ UNCHANGED <<input, appVars>>

NextTime == FormatSrtTimeStep \/ ParseFormattedStep \/ ParseTimeStringStep

SpecTime == InitTime /\ [][NextTime]_vars

----------------------------------------------------------------------------
(* Claims about the timestamp utilities                                     *)

\* C5: for every non-negative x, parseTimeString(formatSrtTime(x)) equals x to
\* millisecond precision (x with its sub-millisecond part dropped).
C5_RoundTripAllTimes ==
    op = "roundTrip" =>
        output = Num((input.x \div TicksPerMs) * TicksPerMs)

\* C8: parseTimeString returns 0 only for the empty string; every other
\* malformed input yields NaN instead of silently returning 0.
C8_MalformedNeverZero ==
    (op = "parseTimeString" /\ input.kind = "raw" /\ input.s \in MalformedTimes
        /\ input.s # <<>>)
        => output.nan

\* C9: a well-formed timestamp parses to hours*3600 + minutes*60 + seconds with
\* three components and to minutes*60 + seconds with two, the comma read as a
\* period; "01:02.500" gives 62.5 and "00:05,250" gives 5.25.
C9_WellFormedValue ==
    op = "parseTimeString" =>
        /\ input.kind = "stamp" => output = Num(StampValue(input.c))
        /\ (input.kind = "raw" /\ input.s = Example1) => output = Num(62 * TicksPerSecond + 500 * TicksPerMs)
        /\ (input.kind = "raw" /\ input.s = Example2) => output = Num(5 * TicksPerSecond + 250 * TicksPerMs)

\* C9 witness: a three-component timestamp with a comma and non-zero hours,
\* minutes and milliseconds has been parsed
C9_Witness ==
    /\ op = "parseTimeString"
    /\ input.kind = "stamp"
    /\ input.c.n = 3 /\ input.c.sep = "," /\ input.c.h > 0 /\ input.c.m > 0 /\ input.c.ms > 0
    /\ output = Num(StampValue(input.c))

----------------------------------------------------------------------------
(* Specification of the SRT codec                                           *)

MaxSegs == 2

\* subtitle texts: trimmed and non-blank; the third has two lines, as the
\* prompt asks of the model for texts over 35 characters
TextHi == <<"h", "i">>
TextTwoWords == <<"a", " ", "b">>
TextTwoLines == <<"a", "\n", "b">>
SegTexts == {TextHi, TextTwoWords, TextTwoLines}

\* [start, end] spans in ticks: whole, fractional and sub-millisecond times
Spans ==
    { <<0, 15000>>, <<15000, 30005>>, <<30005, 625000>>, <<36000000, 36612500>> }

Ordered(segs) ==
    \A i \in 1..(Len(segs) - 1) : segs[i].endTime.v <= segs[i + 1].startTime.v

\* non-empty ordered segment lists
SegLists ==
    UNION { { segs \in [1..n -> {Segment(0, Num(sp[1]), Num(sp[2]), t) : sp \in Spans, t \in SegTexts}] :
                Ordered(segs) } : n \in 1..MaxSegs }

\* the segments with identifiers 1..n, as crypto.randomUUID would have numbered them
Numbered(segs) == [i \in 1..Len(segs) |-> [segs[i] EXCEPT !.id = i]]

\* SRT file contents
SrtOne ==
    <<"1", "\n">> \o formatSrtTime(Num(0)) \o Arrow \o formatSrtTime(Num(15000)) \o <<"\n">> \o TextHi
SrtTwoCrLf ==
    SrtOne \o <<"\r", "\n", "\r", "\n", "2", "\r", "\n">>
    \o formatSrtTime(Num(15000)) \o Arrow \o formatSrtTime(Num(30000))
    \o <<"\r", "\n">> \o TextHi \o <<"\r", "\n">> \o TextTwoWords \o <<"\r", "\n">>
SrtShortBlock ==
    <<"1", "\n">> \o TextHi \o <<"\n", "\n">> \o SrtOne
SrtNoArrow ==
    <<"1", "\n", "0", "0", ":", "0", "1", "\n">> \o TextHi
SrtGarbage == <<"x", "y", "z">>
SrtContents == {SrtOne, SrtTwoCrLf, SrtShortBlock, SrtNoArrow, SrtGarbage}

\* blocks as sequences of lines: a full block, one with two text lines, one
\* with two lines only, one with three lines and no arrow on the second, one
\* with an arrow and nothing after it, and a single line
MaxBlocks == 2
TimecodeLine == formatSrtTime(Num(0)) \o Arrow \o formatSrtTime(Num(15000))
BlockFull == << <<"1">>, TimecodeLine, TextHi >>
BlockTwoTextLines == << <<"2">>, TimecodeLine, TextHi, TextTwoWords >>
BlockTwoLines == << <<"3">>, TextHi >>
BlockNoArrow == << <<"4">>, <<"0", "0", ":", "0", "1">>, TextHi >>
BlockNoEnd == << <<"5">>, formatSrtTime(Num(0)) \o Arrow, TextHi >>
BlockOneLine == << <<"x", "y", "z">> >>
SrtBlocks ==
    {BlockFull, BlockTwoTextLines, BlockTwoLines, BlockNoArrow, BlockNoEnd, BlockOneLine}
BlockLists == UNION { [1..n -> SrtBlocks] : n \in 1..MaxBlocks }

\* the file of the blocks: the lines of a block on lines of their own, a blank
\* line between two blocks
BlocksText(blocks) ==
    Join([i \in 1..Len(blocks) |-> Join(blocks[i], LF)], LF \o LF)

SrtInputs ==
    [kind : {"segs"}, segs : {Numbered(l) : l \in SegLists}]
    \cup [kind : {"srt"}, s : SrtContents]
    \cup [kind : {"blocks"}, blocks : BlockLists]

\* the content of the file read
SrtText(in) == IF in.kind = "blocks" THEN BlocksText(in.blocks) ELSE in.s

InitSrt ==
    /\ AppIdle
    /\ op = "idle"
    /\ input \in SrtInputs
    /\ output = NoValue

\* generateSrt(segments)
GenerateSrtStep ==
    /\ op = "idle"
    /\ input.kind = "segs"
    /\ output' = generateSrt(input.segs)
    /\ op' = "generateSrt"
    /\ UNCHANGED <<input, appVars>>

\* parseSrt(generateSrt(segments))
ParseGeneratedStep ==
    /\ op = "generateSrt"
    /\ output' = parseSrt(output)
    /\ op' = "roundTripSrt"
    /\ UNCHANGED <<input, appVars>>

\* parseSrt(srtContent)
ParseSrtStep ==
    /\ op = "idle"
    /\ input.kind \in {"srt", "blocks"}
    /\ output' = parseSrt(SrtText(input))
    /\ op' = "parseSrt"
    /\ UNCHANGED <<input, appVars>>

NextSrt == GenerateSrtStep \/ ParseGeneratedStep \/ ParseSrtStep

SpecSrt == InitSrt /\ [][NextSrt]_vars

\* a time with its sub-millisecond part dropped
ToMs(t) == Num((t.v \div TicksPerMs) * TicksPerMs)

\* C4: parseSrt(generateSrt(segments)) has the length of segments, and its i-th
\* segment has the text and, to the millisecond, the times of the i-th input,
\* for every non-empty ordered list of trimmed non-blank texts.
C4_SrtRoundTrip ==
    op = "roundTripSrt" =>
        /\ Len(output) = Len(input.segs)
        /\ \A i \in 1..Len(input.segs) :
              i <= Len(output) =>
                /\ output[i].text = input.segs[i].text
                /\ output[i].startTime = ToMs(input.segs[i].startTime)
                /\ output[i].endTime = ToMs(input.segs[i].endTime)

\* the blocks among blocks that satisfy Keep, in order
KeptBlocks(blocks, Keep(_)) == SelectSeq(blocks, Keep)

\* the two sides of the timecode line of a block of three lines or more
TimecodeParts(block) == Split(block[2], Arrow)

\* the output is one segment per block of kept, in order: the times are those
\* of the two sides of line 2, the text is the lines from the third on joined
\* with single spaces
SegmentPerBlock(kept, segments) ==
    /\ Len(segments) = Len(kept)
    /\ \A i \in 1..Len(kept) :
          i <= Len(segments) =>
            /\ segments[i].startTime = parseTimeString(ElementOrUndefined(TimecodeParts(kept[i]), 1))
            /\ segments[i].endTime = parseTimeString(ElementOrUndefined(TimecodeParts(kept[i]), 2))
            /\ segments[i].text = Join(SubSeq(kept[i], 3, Len(kept[i])), <<" ">>)

AtLeastThreeLines(block) == Len(block) >= 3

\* a block of three lines or more whose second line has text on both sides of
\* the arrow
HasTimecodePair(block) ==
    /\ Len(block) >= 3
    /\ Len(TimecodeParts(block)) >= 2
    /\ TimecodeParts(block)[1] # <<>>
    /\ TimecodeParts(block)[2] # <<>>

\* C13 as stated: parseSrt produces, in block order, exactly one segment for each
\* blank-line-separated block that has at least three lines, with line 2 split
\* on the arrow as the times and the lines from the third on joined with
\* single spaces as the text; shorter blocks are skipped.
C13_SegmentPerLongBlock ==
    (op = "parseSrt" /\ input.kind = "blocks") =>
        SegmentPerBlock(KeptBlocks(input.blocks, AtLeastThreeLines), output)

\* C13 amended: parseSrt produces, in block order, exactly one segment for each
\* block that has at least three lines and whose second line has text on both
\* sides of the arrow; every other block is skipped without an error and
\* without an effect on the other blocks.
C13_SegmentPerTimedBlock ==
    (op = "parseSrt" /\ input.kind = "blocks") =>
        SegmentPerBlock(KeptBlocks(input.blocks, HasTimecodePair), output)

\* C13 witness: a file of a block without an arrow followed by a block with two
\* text lines was parsed to the one segment of the second block
C13_Witness ==
    /\ op = "parseSrt"
    /\ input.kind = "blocks"
    /\ input.blocks = <<BlockNoArrow, BlockTwoTextLines>>
    /\ Len(output) = 1
    /\ output[1].text = TextHi \o <<" ">> \o TextTwoWords

----------------------------------------------------------------------------
(* Specification of the response interpreter                                *)

Str(chars) == Quote \o chars \o Quote

\* the text of one record {"start":...,"end":...,"text":...}
RecordText(start, end, text) ==
    <<"{">> \o Str(KeyStart) \o Colon \o Str(start) \o Comma
    \o Str(KeyEnd) \o Colon \o Str(end) \o Comma
    \o Str(KeyText) \o Colon \o Str(text) \o <<"}">>

\* "MM:SS.mmm" for s seconds and ms milliseconds
Stamp2(sec, ms) == StampText([n |-> 2, h |-> 0, m |-> 0, s |-> sec, ms |-> ms, sep |-> "."])

Rec1 == RecordText(Stamp2(1, 0), Stamp2(2, 0), TextHi)
Rec2 == RecordText(Stamp2(2, 0), Stamp2(3, 500), TextTwoWords)
\* a text of two lines, the line break escaped
RecLines == RecordText(Stamp2(1, 0), Stamp2(2, 0), <<"a", "\\", "n", "b">>)
\* a text that holds a closing brace
RecBrace == RecordText(Stamp2(1, 0), Stamp2(2, 0), <<"a", "}", "b">>)
\* a text that holds a fence marker
RecFence == RecordText(Stamp2(1, 0), Stamp2(2, 0), <<"a">> \o Fence \o <<"b">>)

ArrayNone == EmptyArrayText
ArrayOne == OpenBracket \o Rec1 \o CloseBracket
ArrayTwo == OpenBracket \o Rec1 \o Comma \o Rec2 \o CloseBracket
ArraySpaced ==
    OpenBracket \o <<"\n", " ">> \o Rec1 \o <<" ", ",", "\n", " ">> \o Rec2 \o <<"\n">> \o CloseBracket
ArrayLines == OpenBracket \o RecLines \o CloseBracket
ArrayBrace == OpenBracket \o RecBrace \o Comma \o Rec2 \o CloseBracket
ArrayFence == OpenBracket \o RecFence \o CloseBracket

\* well-formed array texts
WellFormedArrays ==
    {ArrayNone, ArrayOne, ArrayTwo, ArraySpaced, ArrayLines, ArrayBrace, ArrayFence}

\* array texts whose proper prefixes are the truncated responses
TruncatedArrays == {ArrayTwo, ArraySpaced, ArrayBrace}

\* responses that hold no array
OtherTexts ==
    { <<" ", "\n">>,
      <<"n", "o", " ", "s", "p", "e", "e", "c", "h">>,
      <<"[", "x", "]">>,
      <<"]", " ", "[">>,
      <<"o", "k", " ", "[", "x", "]", " ", "y">>,
      Fence \o Fence }

\* the array in a fenced code block: tagged or not, the fences on the same line
\* or on lines of their own
Fenced(a, tag, ws) ==
    Fence \o (IF tag THEN JsonTag ELSE <<>>) \o ws \o a \o ws \o Fence

JsonInputs ==
    [kind : {"plain"}, a : WellFormedArrays]
    \cup [kind : {"fenced"}, a : WellFormedArrays, tag : BOOLEAN, ws : {<<>>, LF}]
    \cup UNION { { [kind |-> "trunc", a |-> a, n |-> n, tag |-> tag] :
                     n \in 1..(Len(a) - 1), tag \in BOOLEAN } : a \in TruncatedArrays }
    \cup [kind : {"other"}, a : OtherTexts]

\* the raw response text of an input
RawText(i) ==
    CASE i.kind = "fenced" -> Fenced(i.a, i.tag, i.ws)
      [] i.kind = "trunc" ->
            (IF i.tag THEN Fence \o JsonTag \o LF ELSE <<>>) \o SubSeq(i.a, 1, i.n)
      [] OTHER -> i.a

InitJson ==
    /\ AppIdle
    /\ op = "idle"
    /\ input \in JsonInputs
    /\ output = NoValue

\* sanitizeAndRepairJson(rawText)
SanitizeStep ==
    /\ op = "idle"
    /\ output' = sanitizeAndRepairJson(RawText(input))
    /\ op' = "sanitize"
    /\ UNCHANGED <<input, appVars>>

\* JSON.parse(jsonText)
ParseRecoveredStep ==
    /\ op = "sanitize"
    /\ output' = JSONparse(output)
    /\ op' = "JSON.parse"
    /\ UNCHANGED <<input, appVars>>

\* generateSubtitles with a key, a settled response and crypto.randomUUID
GenerateSubtitlesStep ==
    /\ op = "idle"
    /\ output' = generateSubtitles(TRUE, [rejected |-> FALSE, error |-> "", text |-> RawText(input)], TRUE)
    /\ op' = "generateSubtitles"
    /\ UNCHANGED <<input, appVars>>

NextJson == SanitizeStep \/ ParseRecoveredStep \/ GenerateSubtitlesStep

SpecJson == InitJson /\ [][NextJson]_vars

----------------------------------------------------------------------------
(* Claims about the response interpreter                                    *)

\* whether the response recovers to an array with zero records
ZeroRecords(text) ==
    LET parsed == JSONparse(sanitizeAndRepairJson(text))
    IN  parsed.ok /\ parsed.val.t = "arr" /\ parsed.val.items = <<>>

\* C1: when the response recovers to an array with zero records, generateSubtitles
\* fails with "No speech detected." and not with the parse-failure error.
C1_NoSpeechError ==
    (op = "generateSubtitles" /\ ZeroRecords(RawText(input)))
        => (~output.ok /\ output.error = MsgNoSpeech)

\* C6 as stated: for any well-formed array text A, the payload recovered from A in
\* a fenced code block is the payload recovered from A without the fence.
C6_FencedSameAsPlain ==
    (op = "sanitize" /\ input.kind = "fenced")
        => output = sanitizeAndRepairJson(input.a)

\* C6 amended: for a well-formed array text A that holds no fence marker, the
\* payload recovered from A in a fenced code block (tagged json or not) is the
\* payload recovered from A without the fence, which is A itself.
C6_FencedSameAsPlainNoMarker ==
    (op = "sanitize" /\ input.kind = "fenced" /\ ~Includes(input.a, Fence))
        => (output = sanitizeAndRepairJson(input.a) /\ output = input.a)

\* C6 witness: a two-record array in a tagged fence with line breaks was recovered
C6_Witness ==
    /\ op = "sanitize"
    /\ input.kind = "fenced" /\ input.a = ArrayTwo /\ input.tag /\ input.ws = LF
    /\ output = ArrayTwo

\* the position of the first "[" of the text, and whether a "]" follows it
FirstOpen(text) == IndexOf(text, OpenBracket)
OpenNotClosed(text) ==
    /\ FirstOpen(text) # 0
    /\ LastIndexOf(text, CloseBracket) < FirstOpen(text)

\* whether the cut of a truncated input falls after its first record and before
\* the end of its second: one complete record followed by truncation
OneCompleteRecord(i) ==
    /\ i.kind = "trunc"
    /\ i.a = ArrayTwo
    /\ i.n >= Len(OpenBracket \o Rec1)
    /\ i.n < Len(OpenBracket \o Rec1 \o Comma \o Rec2)

\* C7: for a response with a "[" and no "]" after it, the payload is the text from
\* the first "[" through the last "}" with "]" appended when a "}" follows the
\* "[", and the empty list otherwise; one complete record followed by truncation
\* recovers exactly that record.
C7_TruncatedRecovery ==
    LET text == RawText(input)
        first == FirstOpen(text)
        lastBrace == LastIndexOf(text, CloseBrace)
    IN  /\ (op = "sanitize" /\ OpenNotClosed(text)) =>
              output = (IF lastBrace > first
                        THEN SubSeq(text, first, lastBrace) \o CloseBracket
                        ELSE EmptyArrayText)
        /\ (op = "JSON.parse" /\ OneCompleteRecord(input)) =>
              (output.ok /\ output.val = JSONparse(ArrayOne).val)

\* C7 witness: a response cut inside its second record was repaired and parsed
\* to its first record
C7_Witness ==
    /\ op = "JSON.parse"
    /\ OneCompleteRecord(input)
    /\ input.n > Len(OpenBracket \o Rec1 \o Comma)
    /\ output.ok /\ Len(output.val.items) = 1

\* position i holds the first, or the last, occurrence of the character c
IsFirst(text, i, c) == text[i] = c /\ \A k \in 1..(i - 1) : text[k] # c
IsLast(text, i, c) == text[i] = c /\ \A k \in (i + 1)..Len(text) : text[k] # c

\* C17: the string sanitizeAndRepairJson returns begins with "[" and ends with
\* "]"; it is the literal [] or the slice of the fence-stripped input from its
\* first "[" to its last "]", or to its last "}" with a "]" appended.
C17_BracketedPayload ==
    (op = "sanitize") =>
        LET clean == StripFence(RawText(input))
        IN  /\ Len(output) >= 2
            /\ output[1] = "["
            /\ output[Len(output)] = "]"
            /\ \/ output = <<"[", "]">>
               \/ \E i \in 1..Len(clean), j \in 1..Len(clean) :
                     /\ i < j
                     /\ IsFirst(clean, i, "[")
                     /\ \/ IsLast(clean, j, "]") /\ output = SubSeq(clean, i, j)
                        \/ IsLast(clean, j, "}") /\ output = SubSeq(clean, i, j) \o <<"]">>

\* C17 witness: an array between two pieces of prose was cut out of them
C17_Witness ==
    /\ op = "sanitize"
    /\ input.kind = "other"
    /\ input.a = <<"o", "k", " ", "[", "x", "]", " ", "y">>
    /\ output = <<"[", "x", "]">>

----------------------------------------------------------------------------
(* App.tsx: the handlers of the App component. A handler that awaits is one  *)
(* action per run to the next await; its local variables live in gens.       *)
(* currentTime and taskMode are left out: no handler reads them to decide    *)
(* what it writes to the segment list or the status (taskMode only picks the *)
(* prompt and the wording of the progress message).                          *)

MaxFiles == 2
MaxGens == 1
MaxReads == 1
MaxDuration == 1

MsgLoadMedia == "Please load media first."
MsgExtracting == "Isolating voice frequencies..."
MsgSyncing == "Syncing with voice-onset precision..."
MsgDecode == "Failed to decode audio data. Ensure the file is a valid video or audio format."
MsgNotFound == "Requested entity was not found."
MsgDefault == "An error occurred during generation."
MsgSrt == "Failed to parse SRT file."

Busy == {"EXTRACTING_AUDIO", "GENERATING_SUBTITLES"}

\* what ai.models.generateContent settles with
Fulfilled(text) == [rejected |-> FALSE, error |-> "", text |-> text]
Rejected(error) == [rejected |-> TRUE, error |-> error, text |-> <<>>]
Responses ==
    { Fulfilled(ArrayOne), Fulfilled(Fenced(ArrayTwo, TRUE, LF)), Fulfilled(ArrayNone),
      Fulfilled(<<>>), Rejected(MsgNotFound), Rejected("") }

\* the contents of the SRT files the user picks
PickedSrt == {SrtOne, SrtGarbage, <<>>}

\* the texts the user types into a segment
NewTexts == { <<"x">> }

\* crypto.randomUUID never repeats: the identifiers of a call, moved past the
\* used identifiers handed out before it
Fresh(segments, used) ==
    [i \in 1..Len(segments) |-> [segments[i] EXCEPT !.id = @ + used]]

\* generateSubtitles and parseSrt on the inputs of the handlers, evaluated once
Generated ==
    [apiKey \in BOOLEAN, response \in Responses, uuid \in BOOLEAN |->
        generateSubtitles(apiKey, response, uuid)]
Parsed == [content \in PickedSrt |-> parseSrt(content)]

\* error.message?.includes("Requested entity was not found")
IsNotFound(error) == error = MsgNotFound

\* the effect on mount: checkAuth, which settles before the first handler runs
checkAuth(hasKey) ==
    /\ last.h = "none"
    /\ isAuthorized' = hasKey
    /\ last' = [h |-> "checkAuth"]
    /\ UNCHANGED <<videoFile, subtitles, status, message, duration, gens, reads,
                   nextId, started, loaded, env, fnVars>>

\* handleConnectKey, the button of the gate shown while not authorized
handleConnectKey ==
    /\ ~isAuthorized
    /\ isAuthorized' = TRUE
    /\ last' = [h |-> "handleConnectKey"]
    /\ UNCHANGED <<videoFile, subtitles, status, message, duration, gens, reads,
                   nextId, started, loaded, env, fnVars>>

\* handleFileUpload with a file picked (without one it returns at once); each
\* pick is a new File
handleFileUpload ==
    /\ isAuthorized
    /\ videoFile < MaxFiles
    /\ videoFile' = videoFile + 1
    /\ subtitles' = <<>>
    /\ duration' = 0
    /\ status' = "IDLE"
    /\ message' = ""
    /\ last' = [h |-> "handleFileUpload"]
    /\ UNCHANGED <<isAuthorized, gens, reads, nextId, started, loaded, env, fnVars>>

\* onDurationChange = setDuration, called by the player when the metadata of the
\* loaded file arrives
onDurationChange(d) ==
    /\ isAuthorized
    /\ videoFile # 0
    /\ duration = 0
    /\ duration' = d
    /\ last' = [h |-> "onDurationChange"]
    /\ UNCHANGED <<videoFile, subtitles, status, message, isAuthorized, gens, reads,
                   nextId, started, loaded, env, fnVars>>

\* the Generate button is rendered and not disabled
GenerateEnabled ==
    /\ isAuthorized
    /\ videoFile # 0
    /\ status \notin Busy

\* handleGenerateSubtitles, lines 184-187: no media loaded
GenerateRefused ==
    /\ GenerateEnabled
    /\ duration = 0
    /\ status' = "ERROR"
    /\ message' = MsgLoadMedia
    /\ last' = [h |-> "GenerateRefused"]
    /\ UNCHANGED <<videoFile, subtitles, duration, isAuthorized, gens, reads,
                   nextId, started, loaded, env, fnVars>>

\* handleGenerateSubtitles, lines 189-191: up to await extractAudioBase64(videoFile).
\* The run is recorded with the file it was called with (the duration it passes
\* on goes into the prompt only); held is history, the list held when the run
\* started, which the code does not read.
GenerateStarted ==
    /\ GenerateEnabled
    /\ duration # 0
    /\ started < MaxGens
    /\ status' = "EXTRACTING_AUDIO"
    /\ message' = MsgExtracting
    /\ gens' = gens \cup {[n |-> started + 1, file |-> videoFile, stage |-> "extract",
                           held |-> subtitles]}
    /\ started' = started + 1
    /\ last' = [h |-> "GenerateStarted"]
    /\ UNCHANGED <<videoFile, subtitles, duration, isAuthorized, reads, nextId,
                   loaded, env, fnVars>>

\* handleGenerateSubtitles, lines 193-199: extractAudioBase64 fulfilled, up to
\* await generateSubtitles(...)
ExtractionDone(g) ==
    /\ g \in gens
    /\ g.stage = "extract"
    /\ status' = "GENERATING_SUBTITLES"
    /\ message' = MsgSyncing
    /\ gens' = (gens \ {g}) \cup {[g EXCEPT !.stage = "remote"]}
    /\ last' = [h |-> "ExtractionDone"]
    /\ UNCHANGED <<videoFile, subtitles, duration, isAuthorized, reads, nextId,
                   started, loaded, env, fnVars>>

\* lines 203-211, the catch of handleGenerateSubtitles for the error thrown
Caught(error) ==
    /\ isAuthorized' = (IF IsNotFound(error) THEN FALSE ELSE isAuthorized)
    /\ status' = "ERROR"
    /\ message' = (IF error # "" THEN error ELSE MsgDefault)

\* the mutant of ExtractionFailed used by the checks below: the error is
\* swallowed and the status stays as it is
ExtractionFailedSilently(g) ==
    /\ g \in gens
    /\ g.stage = "extract"
    /\ gens' = gens \ {g}
    /\ last' = [h |-> "ExtractionFailed"]
    /\ UNCHANGED <<videoFile, subtitles, status, message, isAuthorized, duration, reads,
                   nextId, started, loaded, env, fnVars>>

\* handleGenerateSubtitles: extractAudioBase64 rejected
ExtractionFailed(g) ==
    /\ g \in gens
    /\ g.stage = "extract"
    /\ Caught(MsgDecode)
    /\ gens' = gens \ {g}
    /\ last' = [h |-> "ExtractionFailed"]
    /\ UNCHANGED <<videoFile, subtitles, duration, reads, nextId, started, loaded,
                   env, fnVars>>

\* the mutant of Settled used by the checks below
SettledClears(g, result) ==
        /\ g \in gens
        /\ g.stage = "remote"
        /\ gens' = gens \ {g}
        /\ IF result.ok
           THEN /\ subtitles' = Fresh(result.segments, nextId)
                /\ status' = "COMPLETED"
                /\ message' = ""
                /\ nextId' = nextId + Len(result.segments)
                /\ last' = [h |-> "Generated"]
                /\ UNCHANGED isAuthorized
           ELSE /\ Caught(result.error)
                /\ subtitles' = <<>>
                /\ last' = [h |-> "GenerationFailed"]
                /\ UNCHANGED nextId
        /\ UNCHANGED <<videoFile, duration, reads, started, loaded, env, fnVars>>

\* handleGenerateSubtitles, lines 199-211: what the handler does with the
\* result generateSubtitles settled with
Settled(g, result) ==
        /\ g \in gens
        /\ g.stage = "remote"
        /\ gens' = gens \ {g}
        /\ IF result.ok
           THEN /\ subtitles' = Fresh(result.segments, nextId)
                /\ status' = "COMPLETED"
                /\ message' = ""
                /\ nextId' = nextId + Len(result.segments)
                /\ last' = [h |-> "Generated"]
                /\ UNCHANGED isAuthorized
           ELSE /\ Caught(result.error)
                /\ last' = [h |-> "GenerationFailed"]
                /\ UNCHANGED <<subtitles, nextId>>
        /\ UNCHANGED <<videoFile, duration, reads, started, loaded, env, fnVars>>

\* generateSubtitles settled, with the response of the remote call and whether
\* crypto.randomUUID could be called
GenerationSettled(g, response, uuid) ==
    Settled(g, Generated[env.apiKey, response, uuid])

\* handleLoadSrt with a file picked (without one it returns at once): the read
\* is started, its content arrives with the load event
handleLoadSrt(content) ==
    /\ isAuthorized
    /\ loaded < MaxReads
    /\ reads' = reads \cup {[n |-> loaded + 1, content |-> content]}
    /\ loaded' = loaded + 1
    /\ last' = [h |-> "handleLoadSrt"]
    /\ UNCHANGED <<videoFile, subtitles, status, message, duration, isAuthorized,
                   gens, nextId, started, env, fnVars>>

\* whether parseSrt(content) throws: it calls crypto.randomUUID for the first
\* segment it pushes
SrtThrows(content, uuid) == ~uuid /\ Parsed[content] # <<>>

\* the mutant of ReaderOnload used by the checks below
ReaderOnloadClears(r, uuid) ==
    /\ r \in reads
    /\ reads' = reads \ {r}
    /\ last' = [h |-> IF r.content = <<>> THEN "SrtEmpty"
                      ELSE IF SrtThrows(r.content, uuid) THEN "SrtFailed" ELSE "SrtLoaded"]
    /\ IF r.content = <<>>
       THEN UNCHANGED <<subtitles, status, message, nextId>>
       ELSE IF SrtThrows(r.content, uuid)
       THEN /\ subtitles' = <<>>
            /\ status' = "ERROR"
            /\ message' = MsgSrt
            /\ UNCHANGED nextId
       ELSE /\ subtitles' = Fresh(Parsed[r.content], nextId)
            /\ status' = "COMPLETED"
            /\ message' = ""
            /\ nextId' = nextId + Len(Parsed[r.content])
    /\ UNCHANGED <<videoFile, duration, isAuthorized, gens, started, loaded, env, fnVars>>

\* reader.onload of handleLoadSrt, lines 233-244, with whether
\* crypto.randomUUID could be called
ReaderOnload(r, uuid) ==
    /\ r \in reads
    /\ reads' = reads \ {r}
    /\ last' = [h |-> IF r.content = <<>> THEN "SrtEmpty"
                      ELSE IF SrtThrows(r.content, uuid) THEN "SrtFailed" ELSE "SrtLoaded"]
    /\ IF r.content = <<>>
       THEN UNCHANGED <<subtitles, status, message, nextId>>
       ELSE IF SrtThrows(r.content, uuid)
       THEN /\ status' = "ERROR"
            /\ message' = MsgSrt
            /\ UNCHANGED <<subtitles, nextId>>
       ELSE /\ subtitles' = Fresh(Parsed[r.content], nextId)
            /\ status' = "COMPLETED"
            /\ message' = ""
            /\ nextId' = nextId + Len(Parsed[r.content])
    /\ UNCHANGED <<videoFile, duration, isAuthorized, gens, started, loaded, env, fnVars>>

\* the mutant of WithText used by the checks below: every segment gets the text
WithTextEverywhere(prev, id, newText) ==
    [i \in 1..Len(prev) |-> [prev[i] EXCEPT !.text = newText]]

\* prev.map(s => s.id === id ? { ...s, text: newText } : s)
WithText(prev, id, newText) ==
    [i \in 1..Len(prev) |-> IF prev[i].id = id THEN [prev[i] EXCEPT !.text = newText]
                            ELSE prev[i]]

\* prev.filter(s => s.id !== id)
Without(prev, id) == SelectSeq(prev, LAMBDA seg : seg.id # id)

\* updateSubtitle(id, newText), called by the editor
updateSubtitle(id, newText) ==
    /\ isAuthorized
    /\ subtitles' = WithText(subtitles, id, newText)
    /\ last' = [h |-> "updateSubtitle"]
    /\ UNCHANGED <<videoFile, status, message, duration, isAuthorized, gens, reads,
                   nextId, started, loaded, env, fnVars>>

\* deleteSubtitle(id), called by the editor
deleteSubtitle(id) ==
    /\ isAuthorized
    /\ subtitles' = Without(subtitles, id)
    /\ last' = [h |-> "deleteSubtitle"]
    /\ UNCHANGED <<videoFile, status, message, duration, isAuthorized, gens, reads,
                   nextId, started, loaded, env, fnVars>>

Init ==
    /\ AppInit
    /\ env \in [apiKey : BOOLEAN]
    /\ op = "idle"
    /\ input = NoValue
    /\ output = NoValue

Next ==
    \/ \E hasKey \in BOOLEAN : checkAuth(hasKey)
    \/ handleConnectKey
    \/ handleFileUpload
    \/ \E d \in 1..MaxDuration : onDurationChange(d)
    \/ GenerateRefused
    \/ GenerateStarted
    \/ \E g \in gens : ExtractionDone(g)
    \/ \E g \in gens : ExtractionFailed(g)
    \/ \E g \in gens, response \in Responses, uuid \in BOOLEAN : GenerationSettled(g, response, uuid)
    \/ \E content \in PickedSrt : handleLoadSrt(content)
    \/ \E r \in reads, uuid \in BOOLEAN : ReaderOnload(r, uuid)
    \/ \E id \in 1..nextId, newText \in NewTexts : updateSubtitle(id, newText)
    \/ \E id \in 1..nextId : deleteSubtitle(id)

Spec == Init /\ [][Next]_vars

----------------------------------------------------------------------------
(* Claims about the handlers of the App component                           *)

\* the steps of a run of handleGenerateSubtitles that do not complete it with success
GenerateSteps ==
    {"GenerateRefused", "GenerateStarted", "ExtractionDone", "ExtractionFailed",
     "GenerationFailed"}

\* C2 as stated: after a run of handleGenerateSubtitles the segment list is
\* either entirely the list returned by that generation (success) or exactly
\* the list that was held before the generation started (failure at any stage).
C2_ReturnedOrHeldAtStart ==
    [][ /\ (last'.h \in {"ExtractionFailed", "GenerationFailed"}) =>
              \A g \in gens \ gens' : subtitles' = g.held
        /\ (last'.h = "Generated") =>
              \E response \in Responses :
                 /\ Generated[env.apiKey, response, TRUE].ok
                 /\ subtitles' = Fresh(Generated[env.apiKey, response, TRUE].segments, nextId)
      ]_vars

\* C2 amended: generation has no partial success: a step of
\* handleGenerateSubtitles either leaves the segment list as it found it (the
\* refusal, the start, the extraction, and a failure at any stage) or, on
\* success, replaces it by the whole list generateSubtitles returned. What
\* other handlers wrote to the list while the run was awaiting stays on failure.
C2_NoPartialSuccess ==
    [][ /\ (last'.h \in GenerateSteps) => (subtitles' = subtitles)
        /\ (last'.h = "Generated") =>
              \E response \in Responses :
                 /\ Generated[env.apiKey, response, TRUE].ok
                 /\ subtitles' = Fresh(Generated[env.apiKey, response, TRUE].segments, nextId)
      ]_vars

\* C2 witness: a generation has failed at the remote call or the parse while a
\* list from an earlier generation or import was held, and the list is still there
C2_Witness ==
    /\ last.h = "GenerationFailed"
    /\ status = "ERROR"
    /\ subtitles # <<>>

\* C3: independent generation requests are never interleaved against the same
\* file state without the previous result being discarded first: when a
\* generation starts, no other generation on the same media file is still in
\* flight, and the segment state is reset before the generation runs.
C3_StartResetsSegments ==
    [][ (last'.h = "GenerateStarted") =>
            /\ \A g \in gens : g.file # videoFile
            /\ subtitles' = <<>>
      ]_vars

\* C14: the result of a generation is applied only to the file it was computed
\* from: a run that was started on an earlier media file than the one loaded
\* now changes neither the segment list nor the status when one of its awaited
\* steps settles.
C14_StaleRunChangesNothing ==
    [][ \A g \in gens :
            (g \notin gens' /\ g.file # videoFile) =>
                (subtitles' = subtitles /\ status' = status)
      ]_vars

\* the number of the runs in flight
RunNumbers(runs) == {g.n : g \in runs}

\* C15: within one generation the status goes EXTRACTING_AUDIO, then
\* GENERATING_SUBTITLES, then COMPLETED: EXTRACTING_AUDIO is entered by the
\* start of a run only, GENERATING_SUBTITLES only by a run whose extraction
\* succeeded, COMPLETED is set by a run only in the step that replaces the
\* list by its result, and the step in which a run ends leaves the status
\* COMPLETED or ERROR.
C15_StatusOrder ==
    [][ /\ (status' = "EXTRACTING_AUDIO" /\ status # "EXTRACTING_AUDIO") =>
              /\ last'.h = "GenerateStarted"
              /\ \E g \in gens' \ gens : g.stage = "extract"
        /\ (status' = "GENERATING_SUBTITLES" /\ status # "GENERATING_SUBTITLES") =>
              /\ last'.h = "ExtractionDone"
              /\ \E g \in gens : g.stage = "extract" /\ [g EXCEPT !.stage = "remote"] \in gens'
        /\ (\E g \in gens' : g.stage = "remote" /\ g \notin gens) =>
              /\ last'.h = "ExtractionDone"
              /\ status' = "GENERATING_SUBTITLES"
        /\ (last'.h \in GenerateSteps) => (status' # "COMPLETED")
        /\ (last'.h = "Generated") =>
              /\ status' = "COMPLETED"
              /\ \E g \in gens \ gens' : g.stage = "remote"
              /\ \E response \in Responses :
                    /\ Generated[env.apiKey, response, TRUE].ok
                    /\ subtitles' = Fresh(Generated[env.apiKey, response, TRUE].segments, nextId)
        /\ (RunNumbers(gens') # RunNumbers(gens) /\ RunNumbers(gens') \subseteq RunNumbers(gens)) =>
              status' \in {"COMPLETED", "ERROR"}
      ]_vars

\* C15 witness: a run went through both awaited steps and ended COMPLETED with
\* its list in place
C15_Witness ==
    /\ last.h = "Generated"
    /\ status = "COMPLETED"
    /\ Len(subtitles) = 2
    /\ gens = {}

\* C16: updateSubtitle(id, newText) keeps the length, the order, the
\* identifiers and the times of the list and changes the text of the segments
\* with that identifier only; deleteSubtitle(id) removes the segments with that
\* identifier and keeps the others as they are, in their order; both leave the
\* list as it is when no segment has the identifier.
C16_EditTouchesTarget ==
    [][ /\ (last'.h = "updateSubtitle") =>
              \E id \in 1..nextId, newText \in NewTexts :
                 /\ Len(subtitles') = Len(subtitles)
                 /\ \A i \in 1..Len(subtitles) :
                       /\ subtitles'[i].id = subtitles[i].id
                       /\ subtitles'[i].startTime = subtitles[i].startTime
                       /\ subtitles'[i].endTime = subtitles[i].endTime
                       /\ subtitles'[i].text =
                              (IF subtitles[i].id = id THEN newText ELSE subtitles[i].text)
                 /\ ((\A i \in 1..Len(subtitles) : subtitles[i].id # id) =>
                        subtitles' = subtitles)
        /\ (last'.h = "deleteSubtitle") =>
              \E id \in 1..nextId :
                 LET kept == {i \in 1..Len(subtitles) : subtitles[i].id # id}
                 IN  /\ Len(subtitles') = Cardinality(kept)
                     /\ \A j \in 1..Len(subtitles') : subtitles'[j].id # id
                     /\ \A i \in kept :
                           subtitles'[Cardinality({k \in kept : k <= i})] = subtitles[i]
      ]_vars

\* C16 witness: the second of two segments was edited and the first is as
\* generateSubtitles returned it
C16_Witness ==
    /\ last.h = "updateSubtitle"
    /\ Len(subtitles) = 2
    /\ subtitles[2].text = <<"x">>
    /\ subtitles[1].text # <<"x">>

\* C10: when parseSrt throws in the load callback of handleLoadSrt, the segment
\* list stays as it was and only the processing status changes, to ERROR with
\* "Failed to parse SRT file."; the list is replaced only by the segments
\* parseSrt returned.
C10_SrtFailureKeepsSegments ==
    [][ /\ (last'.h = "SrtFailed") =>
              /\ subtitles' = subtitles
              /\ status' = "ERROR" /\ message' = MsgSrt
              /\ UNCHANGED <<videoFile, duration, isAuthorized, gens, nextId>>
        /\ (last'.h = "SrtLoaded") =>
              \E r \in reads : subtitles' = Fresh(Parsed[r.content], nextId)
      ]_vars

\* C10 witness: an SRT import has failed while a non-empty list was held
C10_Witness ==
    /\ last.h = "SrtFailed"
    /\ status = "ERROR" /\ message = MsgSrt
    /\ subtitles # <<>>

-----------------------------------------------------------------------------
(* VideoPlayer.tsx: extractAudioBase64, from the rendered channel data on.    *)
(* A sample is a number in ticks (1 = TicksPerSecond ticks) or NaN; the       *)
(* infinities a Float32Array can hold clamp like any value beyond 1 or -1.    *)
(* The buffer is the sequence of its bytes, byte offset k at index k + 1.     *)

MaxSamples == 2

HeaderBytes == 44
RiffExtra == 36
FmtChunkSize == 16
PcmFormat == 1
Channels == 1
SampleRate == 16000
BlockAlign == 2
BitDepth == 16
PositiveScale == 32767
NegativeScale == 32768

\* Math.min and Math.max: NaN if either argument is NaN
MathMin(a, b) == IF a.nan \/ b.nan THEN NaN ELSE IF a.v <= b.v THEN a ELSE b
MathMax(a, b) == IF a.nan \/ b.nan THEN NaN ELSE IF a.v >= b.v THEN a ELSE b

\* Math.max(-1, Math.min(1, channelData[i]))
Clamp(sample) == MathMax(Num(0 - TicksPerSecond), MathMin(Num(TicksPerSecond), sample))

\* the integer part of ticks * scale / TicksPerSecond, truncated toward zero
Truncated(ticks, scale) ==
    IF ticks < 0 THEN 0 - (((0 - ticks) * scale) \div TicksPerSecond)
    ELSE (ticks * scale) \div TicksPerSecond

\* ToInt16 of the DataView setter: NaN gives 0, the integer part is taken
\* modulo 2^16 and read as a signed 16-bit value
ToInt16(n) ==
    LET m == n % 65536
    IN  IF m >= 32768 THEN m - 65536 ELSE m

\* the mutant of Quantize used by the checks below: one scale for both signs
QuantizeOneScale(sample) ==
    LET s == Clamp(sample)
    IN  IF s.nan THEN 0 ELSE ToInt16(Truncated(s.v, NegativeScale))

\* lines 211-212: the 16-bit value setInt16 stores for channelData[i]
Quantize(sample) ==
    LET s == Clamp(sample)
    IN  IF s.nan THEN 0
        ELSE ToInt16(Truncated(s.v, IF s.v < 0 THEN NegativeScale ELSE PositiveScale))

\* the bytes of an unsigned value, least significant first (littleEndian = true)
LittleEndian(n, width) == [k \in 1..width |-> (n \div (256 ^ (k - 1))) % 256]

\* string.charCodeAt(i) for the characters of the chunk identifiers
CharCode(c) ==
    CASE c = "R" -> 82 [] c = "I" -> 73 [] c = "F" -> 70 [] c = "W" -> 87
      [] c = "A" -> 65 [] c = "V" -> 86 [] c = "E" -> 69 [] c = "f" -> 102
      [] c = "m" -> 109 [] c = "t" -> 116 [] c = " " -> 32 [] c = "d" -> 100
      [] c = "a" -> 97

\* the bytes written at byte offset offset of the buffer
WriteBytes(buffer, offset, bytes) ==
    [k \in 1..Len(buffer) |->
        IF k > offset /\ k <= offset + Len(bytes) THEN bytes[k - offset] ELSE buffer[k]]

\* writeString(view, offset, string)
writeString(buffer, offset, string) ==
    WriteBytes(buffer, offset, [k \in 1..Len(string) |-> CharCode(string[k])])

\* the DataView setters; setUint32 takes n modulo 2^32, which no size of a buffer
\* that can be allocated reaches
setUint32(buffer, offset, n) == WriteBytes(buffer, offset, LittleEndian(n, 4))
setUint16(buffer, offset, n) == WriteBytes(buffer, offset, LittleEndian(n % 65536, 2))
setInt16(buffer, offset, n) == WriteBytes(buffer, offset, LittleEndian(n % 65536, 2))

\* lines 186-206: the zeroed buffer with the header written
WavHeader(length) ==
    LET b0 == [k \in 1..(HeaderBytes + length * 2) |-> 0]
        b1 == writeString(b0, 0, <<"R", "I", "F", "F">>)
        b2 == setUint32(b1, 4, RiffExtra + length * 2)
        b3 == writeString(b2, 8, <<"W", "A", "V", "E">>)
        b4 == writeString(b3, 12, <<"f", "m", "t", " ">>)
        b5 == setUint32(b4, 16, FmtChunkSize)
        b6 == setUint16(b5, 20, PcmFormat)
        b7 == setUint16(b6, 22, Channels)
        b8 == setUint32(b7, 24, SampleRate)
        b9 == setUint32(b8, 28, SampleRate * 2)
        b10 == setUint16(b9, 32, BlockAlign)
        b11 == setUint16(b10, 34, BitDepth)
        b12 == writeString(b11, 36, <<"d", "a", "t", "a">>)
    IN  setUint32(b12, 40, length * 2)

\* lines 208-214: the loop over the samples, from sample i at byte offset offset
RECURSIVE WriteSamples(_, _, _, _)
WriteSamples(buffer, channelData, i, offset) ==
    IF i > Len(channelData) THEN buffer
    ELSE WriteSamples(setInt16(buffer, offset, Quantize(channelData[i])),
                      channelData, i + 1, offset + 2)

\* the mutant of WavBuffer used by the checks below: the RIFF size counts the
\* whole file
WavBufferWholeSize(channelData) ==
    setUint32(WriteSamples(WavHeader(Len(channelData)), channelData, 1, HeaderBytes),
              4, HeaderBytes + Len(channelData) * 2)

\* lines 185-214: the buffer extractAudioBase64 hands to arrayBufferToBase64
WavBuffer(channelData) ==
    WriteSamples(WavHeader(Len(channelData)), channelData, 1, HeaderBytes)

\* the alphabet of btoa
Base64Alphabet ==
    <<"A", "B", "C", "D", "E", "F", "G", "H", "I", "J", "K", "L", "M", "N", "O", "P",
      "Q", "R", "S", "T", "U", "V", "W", "X", "Y", "Z", "a", "b", "c", "d", "e", "f",
      "g", "h", "i", "j", "k", "l", "m", "n", "o", "p", "q", "r", "s", "t", "u", "v",
      "w", "x", "y", "z", "0", "1", "2", "3", "4", "5", "6", "7", "8", "9", "+", "/">>

Base64Char(n) == Base64Alphabet[n + 1]

\* btoa(binary) from byte i on: three bytes give four characters, a last group
\* of one or two bytes is padded with =
RECURSIVE btoa(_, _)
btoa(bytes, i) ==
    LET left == Len(bytes) - i + 1
        b1 == bytes[i]
        b2 == IF left >= 2 THEN bytes[i + 1] ELSE 0
        b3 == IF left >= 3 THEN bytes[i + 2] ELSE 0
    IN  IF left <= 0 THEN <<>>
        ELSE <<Base64Char(b1 \div 4),
               Base64Char((b1 % 4) * 16 + b2 \div 16),
               IF left >= 2 THEN Base64Char((b2 % 16) * 4 + b3 \div 64) ELSE "=",
               IF left >= 3 THEN Base64Char(b3 % 64) ELSE "=">>
             \o (IF left > 3 THEN btoa(bytes, i + 3) ELSE <<>>)

\* arrayBufferToBase64(buffer): the chunks of the loop concatenate to the whole
\* byte string, which btoa encodes
arrayBufferToBase64(buffer) == btoa(buffer, 1)

\* extractAudioBase64 from the rendered channel data on
extractAudioBase64(channelData) == arrayBufferToBase64(WavBuffer(channelData))

\* the sample values of the rendered buffer: beyond -1, -1, between, 0, between,
\* 1, beyond 1, the smallest steps around 0, and NaN
SampleValues ==
    { Num(0 - 15000), Num(0 - TicksPerSecond), Num(0 - 5000), Num(0 - 1), Num(0),
      Num(1), Num(5000), Num(9999), Num(TicksPerSecond), Num(15000), NaN }

ChannelDatas == UNION { [1..n -> SampleValues] : n \in 0..MaxSamples }

InitWav ==
    /\ AppIdle
    /\ op = "idle"
    /\ input \in ChannelDatas
    /\ output = NoValue

\* the loop body applied to every sample
QuantizeStep ==
    /\ op = "idle"
    /\ output' = [i \in 1..Len(input) |-> Quantize(input[i])]
    /\ op' = "Quantize"
    /\ UNCHANGED <<input, appVars>>

\* the container built from the channel data
WavBufferStep ==
    /\ op = "idle"
    /\ output' = WavBuffer(input)
    /\ op' = "WavBuffer"
    /\ UNCHANGED <<input, appVars>>

\* extractAudioBase64 returns
ExtractAudioBase64Step ==
    /\ op = "idle"
    /\ output' = extractAudioBase64(input)
    /\ op' = "extractAudioBase64"
    /\ UNCHANGED <<input, appVars>>

NextWav == QuantizeStep \/ WavBufferStep \/ ExtractAudioBase64Step

SpecWav == InitWav /\ [][NextWav]_vars

\* the unsigned value of width bytes read little-endian at byte offset offset
ReadLE(buffer, offset, width) ==
    LET RECURSIVE Sum(_)
        Sum(k) == IF k > width THEN 0 ELSE buffer[offset + k] * (256 ^ (k - 1)) + Sum(k + 1)
    IN  Sum(1)

\* the characters of the chunk identifier at byte offset offset
IsTag(buffer, offset, tag) ==
    \A k \in 1..Len(tag) : buffer[offset + k] = CharCode(tag[k])

\* C11: for a rendered buffer of N samples the container has exactly 44 + 2N
\* bytes; its header declares RIFF size 36 + 2N, PCM format, 1 channel, sample
\* rate 16000, byte rate 32000, block align 2, bit depth 16 and data size 2N;
\* sample i stands little-endian, as a 16-bit two's complement value, at byte
\* offset 44 + 2i.
C11_WavLayout ==
    (op = "WavBuffer") =>
        LET N == Len(input)
        IN  /\ Len(output) = 44 + 2 * N
            /\ IsTag(output, 0, <<"R", "I", "F", "F">>)
            /\ ReadLE(output, 4, 4) = 36 + 2 * N
            /\ IsTag(output, 8, <<"W", "A", "V", "E">>)
            /\ IsTag(output, 12, <<"f", "m", "t", " ">>)
            /\ ReadLE(output, 16, 4) = 16
            /\ ReadLE(output, 20, 2) = 1
            /\ ReadLE(output, 22, 2) = 1
            /\ ReadLE(output, 24, 4) = 16000
            /\ ReadLE(output, 28, 4) = 32000
            /\ ReadLE(output, 32, 2) = 2
            /\ ReadLE(output, 34, 2) = 16
            /\ IsTag(output, 36, <<"d", "a", "t", "a">>)
            /\ ReadLE(output, 40, 4) = 2 * N
            /\ \A i \in 0..(N - 1) :
                  ReadLE(output, 44 + 2 * i, 2) = Quantize(input[i + 1]) % 65536

\* C11 witness: a container of two samples, the first one negative, was built
C11_Witness ==
    /\ op = "WavBuffer"
    /\ Len(input) = 2
    /\ input[1] = Num(0 - 5000)
    /\ Len(output) = 48
    /\ output[45] = 0 /\ output[46] = 192

\* C12: every written sample value lies in -32768..32767 and is the clamped
\* sample scaled by 32767 when non-negative and by 32768 when negative, with
\* the fraction dropped: -1 and everything below give -32768, 0 gives 0, 1 and
\* everything above give 32767.
C12_QuantizeInRange ==
    (op = "Quantize") =>
        \A i \in 1..Len(input) :
            LET x == input[i]
                q == output[i]
            IN  /\ q \in (0 - 32768)..32767
                /\ (~x.nan /\ x.v <= 0 - TicksPerSecond) => q = 0 - 32768
                /\ (~x.nan /\ x.v = 0) => q = 0
                /\ (~x.nan /\ x.v >= TicksPerSecond) => q = 32767
                /\ (~x.nan /\ x.v > 0 /\ x.v < TicksPerSecond) =>
                       /\ q * TicksPerSecond <= x.v * 32767
                       /\ (q + 1) * TicksPerSecond > x.v * 32767
                /\ (~x.nan /\ x.v < 0 /\ x.v > 0 - TicksPerSecond) =>
                       /\ q * TicksPerSecond >= x.v * 32768
                       /\ (q - 1) * TicksPerSecond < x.v * 32768

\* C12 witness: samples beyond 1 and beyond -1 were quantized
C12_Witness ==
    /\ op = "Quantize"
    /\ Len(input) = 2
    /\ input[1] = Num(15000) /\ output[1] = 32767
    /\ input[2] = Num(0 - 15000) /\ output[2] = 0 - 32768

====
